---- MODULE Spec2Model ----
(***************************************************************************)
(* Model of the wallet reputation badge service                            *)
(* (python/ai-wallet-reputation-nft).                                      *)
(*                                                                         *)
(*  - analyzer.py: the reputation scorer simulate_ai_reputation_score, a   *)
(*    function of the transaction count and of the four thresholds, whose  *)
(*    in-band bonus is computed in binary floating point and rounded with  *)
(*    Python's round().                                                    *)
(*  - contract_interaction.py: mint_reputation_badge, a sequence of        *)
(*    blocking calls (hasBadge pre-check, metadata pin, nonce read, gas    *)
(*    estimate, send, wait for receipt) run by concurrent web requests     *)
(*    against one chain and one minter account.                            *)
(*  - analyzer.py: analyze_address_reputation, the connection guard, the   *)
(*    checksum, the two account-data calls and the scorer, with the calls  *)
(*    it makes and the record it returns.                                  *)
(*  - app.py: the handlers of /analyze, /check_badge and /mint, their      *)
(*    tests of the request body and the response they send.                *)
(***************************************************************************)
EXTENDS Integers, Sequences, FiniteSets, TLC

None == "None"

(***************************************************************************)
(* Binary floating point, as CPython computes  a / b * w  and round(x).    *)
(* A nonzero double has a sign, a leading 1 and 52 fraction bits; it is    *)
(* kept as [s |-> sign, m |-> <<l1, l2, l3, l4>>, e |-> exponent], four    *)
(* limbs of 13 fraction bits each, and its value is                        *)
(*     s * (1 + l1/2^13 + l2/2^26 + l3/2^39 + l4/2^52) * 2^e.              *)
(* Zero is [s |-> 1, m |-> <<>>, e |-> 0].  Operands are small enough      *)
(* (divisor below 2^18 in magnitude, multiplier below 2^13) for every      *)
(* intermediate to be exact.                                               *)
(***************************************************************************)
Limb == 2^13

Zero == [s |-> 1, m |-> <<>>, e |-> 0]

Abs(n) == IF n < 0 THEN -n ELSE n

\* n * 2^k
RECURSIVE Shl(_, _)
Shl(n, k) == IF k = 0 THEN n ELSE Shl(2 * n, k - 1)

\* the greatest k with 2^k <= n   (n >= 1)
RECURSIVE Log2(_)
Log2(n) == IF n < 2 THEN 0 ELSE 1 + Log2(n \div 2)

\* limbs + 1 in the last place; carry reports an overflow out of the top limb
RECURSIVE Incr(_)
Incr(limbs) ==
    IF limbs = <<>> THEN [m |-> <<>>, carry |-> 1]
    ELSE LET n == Len(limbs) IN
         IF limbs[n] + 1 < Limb
         THEN [m |-> [limbs EXCEPT ![n] = @ + 1], carry |-> 0]
         ELSE LET up == Incr(SubSeq(limbs, 1, n - 1))
              IN  [m |-> Append(up.m, 0), carry |-> up.carry]

\* The double with sign, fraction limbs and exponent e, one unit in the last
\* place larger in magnitude when roundUp; a carry out of the fraction gives
\* 1.0 * 2^(e+1).
Rounded(sign, limbs, e, roundUp) ==
    IF ~roundUp THEN [s |-> sign, m |-> limbs, e |-> e]
    ELSE LET inc == Incr(limbs)
         IN  [s |-> sign, m |-> inc.m, e |-> e + inc.carry]

\* long division: the next k quotient limbs of r / d (r < d) and the remainder
RECURSIVE DivLimbs(_, _, _)
DivLimbs(r, d, k) ==
    IF k = 0 THEN [m |-> <<>>, rem |-> r]
    ELSE LET next == DivLimbs((r * Limb) % d, d, k - 1)
         IN  [m |-> <<(r * Limb) \div d>> \o next.m, rem |-> next.rem]

\* the least s with n * 2^s >= d   (0 < n)
RECURSIVE ShiftUp(_, _)
ShiftUp(n, d) == IF n >= d THEN 0 ELSE 1 + ShiftUp(2 * n, d)

\* the greatest s with d * 2^s <= n   (0 < d <= n)
RECURSIVE ShiftDown(_, _)
ShiftDown(n, d) == IF 2 * d > n THEN 0 ELSE 1 + ShiftDown(n, 2 * d)

\* int / int for d # 0: the double nearest to the quotient, ties to even
\* (CPython's long true division is correctly rounded)
TrueDiv(n, d) ==
    IF n = 0 THEN Zero
    ELSE LET up == ShiftUp(Abs(n), Abs(d))
             nn == Shl(Abs(n), up)
             dn == ShiftDown(nn, Abs(d))
             dd == Shl(Abs(d), dn)
             q  == DivLimbs(nn - dd, dd, 4)
         IN  Rounded(IF (n < 0) = (d < 0) THEN 1 ELSE -1, q.m, dn - up,
                     2 * q.rem > dd \/ (2 * q.rem = dd /\ q.m[4] % 2 = 1))

\* limbs * w, least significant limb first in the recursion: the product's
\* limbs and the carry out of the top limb
RECURSIVE MulLimbs(_, _)
MulLimbs(limbs, w) ==
    IF limbs = <<>> THEN [m |-> <<>>, carry |-> 0]
    ELSE LET low == MulLimbs(Tail(limbs), w)
             t   == limbs[1] * w + low.carry
         IN  [m |-> <<t % Limb>> \o low.m, carry |-> t \div Limb]

\* double * int for an integer 0 < w < 2^13: the double nearest to the
\* product, ties to even
FloatMul(x, w) ==
    IF x = Zero THEN Zero
    ELSE LET p    == MulLimbs(x.m, w)
             top  == w + p.carry            \* product = top.p1p2p3p4 * 2^e
             k    == Log2(top)
             unit == Shl(1, k)
             src  == <<top - unit>> \o p.m  \* the k bits below the leading 1
             m    == [i \in 1..4 |-> (src[i] % unit) * (Limb \div unit)
                                       + (p.m[i] \div unit)]
             lost == p.m[4] % unit
         IN  Rounded(x.s, m, x.e + k,
                     2 * lost > unit \/ (2 * lost = unit /\ m[4] % 2 = 1))

\* round(x) of a double of magnitude below 2^13: the nearest integer, ties
\* to even
PyRound(x) ==
    IF x = Zero \/ x.e < -1 THEN 0
    ELSE IF x.e = -1 THEN (IF x.m = <<0, 0, 0, 0>> THEN 0 ELSE x.s)
    ELSE LET unit == Limb \div Shl(1, x.e)   \* weight of 1 within limb 1
             int  == Shl(1, x.e) + (x.m[1] \div unit)
             frac == x.m[1] % unit
             rest == x.m[2] # 0 \/ x.m[3] # 0 \/ x.m[4] # 0
         IN  IF 2 * frac > unit \/ (2 * frac = unit /\ (rest \/ int % 2 = 1))
             THEN x.s * (int + 1) ELSE x.s * int

(***************************************************************************)
(* Configuration read at process start (analyzer.py).                      *)
(***************************************************************************)
Categories == {"Newcomer", "Explorer", "Contributor", "Veteran", "Legend"}

\* position of a category in the order of the tiers
Tier(category) ==
    CASE category = "Newcomer"    -> 1
      [] category = "Explorer"    -> 2
      [] category = "Contributor" -> 3
      [] category = "Veteran"     -> 4
      [] category = "Legend"      -> 5

\* base scores counted from zero (variant used to test C6)
REPUTATION_LEVELS_FromZero ==
    [Newcomer |-> 0, Explorer |-> 20, Contributor |-> 50, Veteran |-> 80,
     Legend |-> 100]

REPUTATION_LEVELS ==
    [Newcomer |-> 10, Explorer |-> 30, Contributor |-> 60, Veteran |-> 85,
     Legend |-> 95]

\* the values of MIN_TX_COUNT_EXPLORER/CONTRIBUTOR/VETERAN/LEGEND without
\* environment overrides
DefaultThresholds ==
    [MIN_TX_COUNT_EXPLORER |-> 10, MIN_TX_COUNT_CONTRIBUTOR |-> 50,
     MIN_TX_COUNT_VETERAN |-> 200, MIN_TX_COUNT_LEGEND |-> 1000]

Thresholds(t1, t2, t3, t4) ==
    [MIN_TX_COUNT_EXPLORER |-> t1, MIN_TX_COUNT_CONTRIBUTOR |-> t2,
     MIN_TX_COUNT_VETERAN |-> t3, MIN_TX_COUNT_LEGEND |-> t4]

\* The environment may set any integers: the defaults, a strictly increasing
\* setting with narrow bands, and settings that are not strictly increasing.
ThresholdConfigs ==
    { DefaultThresholds,
      Thresholds(2, 40, 44, 48),
      Thresholds(20, 10, 30, 25),
      Thresholds(5, 5, 5, 5),
      Thresholds(0, 4, 4, 9) }

StrictlyIncreasing(T) ==
    /\ T.MIN_TX_COUNT_EXPLORER < T.MIN_TX_COUNT_CONTRIBUTOR
    /\ T.MIN_TX_COUNT_CONTRIBUTOR < T.MIN_TX_COUNT_VETERAN
    /\ T.MIN_TX_COUNT_VETERAN < T.MIN_TX_COUNT_LEGEND

ThresholdValues(T) ==
    { T.MIN_TX_COUNT_EXPLORER, T.MIN_TX_COUNT_CONTRIBUTOR,
      T.MIN_TX_COUNT_VETERAN, T.MIN_TX_COUNT_LEGEND }

\* Transaction counts (account nonces) offered to the scorer: every count up
\* to MaxCount, the counts next to each threshold, and two samples: 44, the
\* example of analyzer.py's test addresses, and 23, which is 21/38 of a band.
MaxCount == 12

SampleCounts == {23, 44}

TxCounts(T) ==
    (0..MaxCount) \cup SampleCounts \cup
    { c \in UNION { {v - 1, v, v + 1} : v \in ThresholdValues(T) } : c >= 0 }

Addresses == {"0x988D", "0xD81c"}

\* a string to_checksum_address rejects
BadAddress == "0xZZ"

(***************************************************************************)
(* simulate_ai_reputation_score (analyzer.py), as a function of the        *)
(* thresholds T and of the transaction count.                              *)
(***************************************************************************)
Min(a, b) == IF a <= b THEN a ELSE b
Max(a, b) == IF a >= b THEN a ELSE b

\* Category with the ceilings compared by <= (variant used to test C1)
CategoryInclusive(T, tx_count) ==
    IF tx_count <= T.MIN_TX_COUNT_EXPLORER THEN "Newcomer"
    ELSE IF tx_count <= T.MIN_TX_COUNT_CONTRIBUTOR THEN "Explorer"
    ELSE IF tx_count <= T.MIN_TX_COUNT_VETERAN THEN "Contributor"
    ELSE IF tx_count <= T.MIN_TX_COUNT_LEGEND THEN "Veteran"
    ELSE "Legend"

\* Category with the second comparison reversed (variant used to test C3)
CategoryReversed(T, tx_count) ==
    IF tx_count < T.MIN_TX_COUNT_EXPLORER THEN "Newcomer"
    ELSE IF tx_count > T.MIN_TX_COUNT_CONTRIBUTOR THEN "Explorer"
    ELSE IF tx_count < T.MIN_TX_COUNT_VETERAN THEN "Contributor"
    ELSE IF tx_count < T.MIN_TX_COUNT_LEGEND THEN "Veteran"
    ELSE "Legend"

\* the if/elif chain over the thresholds
Category(T, tx_count) ==
    IF tx_count < T.MIN_TX_COUNT_EXPLORER THEN "Newcomer"
    ELSE IF tx_count < T.MIN_TX_COUNT_CONTRIBUTOR THEN "Explorer"
    ELSE IF tx_count < T.MIN_TX_COUNT_VETERAN THEN "Contributor"
    ELSE IF tx_count < T.MIN_TX_COUNT_LEGEND THEN "Veteran"
    ELSE "Legend"

\* Scaling measured from the upper threshold down (variant used to test C4)
ScalingFromTop(T, category, tx_count) ==
    CASE category = "Newcomer" ->
           [num |-> T.MIN_TX_COUNT_EXPLORER - tx_count,
            den |-> T.MIN_TX_COUNT_EXPLORER, width |-> 9, cap |-> 19]
      [] category = "Explorer" ->
           [num |-> T.MIN_TX_COUNT_CONTRIBUTOR - tx_count,
            den |-> T.MIN_TX_COUNT_CONTRIBUTOR - T.MIN_TX_COUNT_EXPLORER,
            width |-> 19, cap |-> 49]
      [] category = "Contributor" ->
           [num |-> T.MIN_TX_COUNT_VETERAN - tx_count,
            den |-> T.MIN_TX_COUNT_VETERAN - T.MIN_TX_COUNT_CONTRIBUTOR,
            width |-> 19, cap |-> 79]
      [] category = "Veteran" ->
           [num |-> T.MIN_TX_COUNT_LEGEND - tx_count,
            den |-> T.MIN_TX_COUNT_LEGEND - T.MIN_TX_COUNT_VETERAN,
            width |-> 9, cap |-> 94]

\* Scaling whose Newcomer band is divided by the width of the band above it
\* instead of its own ceiling (variant used to test C11)
ScalingNewcomerByBand(T, category, tx_count) ==
    CASE category = "Newcomer" ->
           [num |-> tx_count,
            den |-> T.MIN_TX_COUNT_CONTRIBUTOR - T.MIN_TX_COUNT_EXPLORER,
            width |-> 9, cap |-> 19]
      [] category = "Explorer" ->
           [num |-> tx_count - T.MIN_TX_COUNT_EXPLORER,
            den |-> T.MIN_TX_COUNT_CONTRIBUTOR - T.MIN_TX_COUNT_EXPLORER,
            width |-> 19, cap |-> 49]
      [] category = "Contributor" ->
           [num |-> tx_count - T.MIN_TX_COUNT_CONTRIBUTOR,
            den |-> T.MIN_TX_COUNT_VETERAN - T.MIN_TX_COUNT_CONTRIBUTOR,
            width |-> 19, cap |-> 79]
      [] category = "Veteran" ->
           [num |-> tx_count - T.MIN_TX_COUNT_VETERAN,
            den |-> T.MIN_TX_COUNT_LEGEND - T.MIN_TX_COUNT_VETERAN,
            width |-> 9, cap |-> 94]

\* per category: dividend and divisor of the interpolation, the factor it is
\* multiplied by and the cap of the band
Scaling(T, category, tx_count) ==
    CASE category = "Newcomer" ->
           [num |-> tx_count, den |-> T.MIN_TX_COUNT_EXPLORER,
            width |-> 9, cap |-> 19]
      [] category = "Explorer" ->
           [num |-> tx_count - T.MIN_TX_COUNT_EXPLORER,
            den |-> T.MIN_TX_COUNT_CONTRIBUTOR - T.MIN_TX_COUNT_EXPLORER,
            width |-> 19, cap |-> 49]
      [] category = "Contributor" ->
           [num |-> tx_count - T.MIN_TX_COUNT_CONTRIBUTOR,
            den |-> T.MIN_TX_COUNT_VETERAN - T.MIN_TX_COUNT_CONTRIBUTOR,
            width |-> 19, cap |-> 79]
      [] category = "Veteran" ->
           [num |-> tx_count - T.MIN_TX_COUNT_VETERAN,
            den |-> T.MIN_TX_COUNT_LEGEND - T.MIN_TX_COUNT_VETERAN,
            width |-> 9, cap |-> 94]

\* int(num / den * width): truncation instead of round (variant used to
\* test C5)
BonusTruncated(s) ==
    LET x == FloatMul(TrueDiv(s.num, s.den), s.width)
    IN  IF x = Zero \/ x.e < 0 THEN 0
        ELSE x.s * (Shl(1, x.e) + (x.m[1] \div (Limb \div Shl(1, x.e))))

\* the fraction taken as a percentage (variant used to test C7)
BonusPercent(s) == PyRound(FloatMul(TrueDiv(s.num, s.den), 100)) \div 5

\* round(num / den * width)
Bonus(s) == PyRound(FloatMul(TrueDiv(s.num, s.den), s.width))

\* the score as a percentage of the band added to the base, with neither the
\* cap of the band nor the final clamp (variant used to test C2)
ScoreUnclamped(T, tx_count) ==
    LET category == Category(T, tx_count)
        base     == REPUTATION_LEVELS[category]
    IN  IF category = "Legend" THEN base
        ELSE LET s == Scaling(T, category, tx_count)
             IN  base + PyRound(FloatMul(TrueDiv(s.num, s.den), 100))

\* the score after the scaling within the band and the final clamp
Score(T, tx_count) ==
    LET category == Category(T, tx_count)
        base     == REPUTATION_LEVELS[category]
        scaled   == IF category = "Legend" THEN base
                    ELSE LET s == Scaling(T, category, tx_count)
                         IN  Min(s.cap, base + Bonus(s))
    IN  Max(0, Min(100, scaled))

\* "Based on {tx_count} transactions, this address is categorized as a
\* {category}." and the suffix of the two extreme tiers
Message(tx_count, category) ==
    [tx_count |-> tx_count, category |-> category,
     suffix |-> IF category = "Newcomer" THEN " Welcome to the chain!"
                ELSE IF category = "Legend" THEN " A true DeFi degen!"
                ELSE ""]

\* TRUE iff the branch taken divides by zero (ZeroDivisionError)
DividesByZero(T, tx_count) ==
    LET category == Category(T, tx_count)
    IN  category # "Legend" /\ Scaling(T, category, tx_count).den = 0

\* category, score and message for every configuration and count, computed
\* once
ScoreTable ==
    [T \in ThresholdConfigs |->
        [c \in TxCounts(T) |->
            IF DividesByZero(T, c)
            THEN [raised |-> "ZeroDivisionError"]
            ELSE [raised |-> None,
                  category |-> Category(T, c),
                  score |-> Score(T, c),
                  message |-> Message(c, Category(T, c))]]]

(***************************************************************************)
(* State.                                                                  *)
(***************************************************************************)
VARIABLES
    cfg,            \* the four MIN_TX_COUNT_* thresholds of this process
    openai_client,  \* TRUE iff the OpenRouter client was created at start
    prev,           \* the scorer's invocation before the last one
    cur,            \* the scorer's last invocation
    w3_connection,  \* TRUE iff get_web3_connection connected at start
    analysis_before, \* what the analysis before the last one returned
    analysis,       \* the last call of analyze_address_reputation
    PINATA_JWT,     \* TRUE iff the pinning credential is configured
    badges,         \* contract: tokens held by each recipient
    minter_nonce,   \* chain: transactions of the minter account mined so far
    pending,        \* chain: the minter's transaction waiting to be mined
    receipts,       \* chain: receipts of the mined transactions
    pc,             \* per web worker: where its mint request stands
    req,            \* per web worker: the locals of mint_reputation_badge
    requests        \* mint requests received so far

analysisVars == <<w3_connection, analysis_before, analysis>>
scorerVars == <<cfg, openai_client, prev, cur, w3_connection, analysis_before,
                analysis>>
mintVars == <<PINATA_JWT, badges, minter_nonce, pending, receipts, pc, req,
              requests>>
vars == <<cfg, openai_client, prev, cur, w3_connection, analysis_before,
          analysis, PINATA_JWT, badges, minter_nonce,
          pending, receipts, pc, req, requests>>

\* what chat.completions.create does: it answers with some text or raises
LlmReplies == {"Welcome! You are just starting.", "raise"}

UNAVAILABLE == "LLM rationale generation is currently unavailable."
COULD_NOT   == "Could not generate AI rationale via OpenRouter at this time."

generate_rationale_with_llm(category, tx_count, address, reply) ==
    IF ~openai_client THEN UNAVAILABLE
    ELSE IF reply = "raise" THEN COULD_NOT
    ELSE reply

\* a scorer that zeroes the score when the narrative generator raised
\* (variant used to test C8)
simulate_ai_reputation_score_ZeroOnError(tx_count, address, reply) ==
    LET r == ScoreTable[cfg][tx_count]
        rationale == generate_rationale_with_llm(r.category, tx_count,
                                                 address, reply)
    IN  IF r.raised # None THEN r
        ELSE [raised |-> None, category |-> r.category,
              score |-> IF rationale = COULD_NOT THEN 0 ELSE r.score,
              message |-> r.message, rationale |-> rationale]

\* a scorer that lets the narrative provider's exception through (variant
\* used to test C13)
simulate_ai_reputation_score_Propagating(tx_count, address, reply) ==
    LET r == ScoreTable[cfg][tx_count]
    IN  IF r.raised # None THEN r
        ELSE IF openai_client /\ reply = "raise" THEN [raised |-> "APIError"]
        ELSE [raised |-> None, category |-> r.category, score |-> r.score,
              message |-> r.message,
              rationale |-> generate_rationale_with_llm(r.category, tx_count,
                                                        address, reply)]

\* One call simulate_ai_reputation_score(tx_count, address): the returned
\* tuple (category, score, message, rationale), or the exception raised.
simulate_ai_reputation_score(tx_count, address, reply) ==
    LET r == ScoreTable[cfg][tx_count]
    IN  IF r.raised # None THEN r
        ELSE [raised |-> None, category |-> r.category, score |-> r.score,
              message |-> r.message,
              rationale |-> generate_rationale_with_llm(r.category, tx_count,
                                                        address, reply)]

\* no invocation yet
NoInvocation == [called |-> FALSE]

\* the scorer is invoked with a count and an address; the narrative
\* generator, when there is a client, answers or raises
Invoke(tx_count, address, reply) ==
    /\ prev' = cur
    /\ cur' = [called |-> TRUE, tx_count |-> tx_count, address |-> address,
               result |-> simulate_ai_reputation_score(tx_count, address, reply)]
    /\ UNCHANGED <<cfg, openai_client>>
    /\ UNCHANGED analysisVars
    /\ UNCHANGED mintVars

(***************************************************************************)
(* The request bodies (app.py).  request.get_json() gives None for the     *)
(* JSON text null, a list for a JSON array and a dict for a JSON object;   *)
(* a body is a record with its kind and, for an object, the values of the  *)
(* two keys the handlers read, Absent or NoData for a key that is missing. *)
(***************************************************************************)
Absent == "absent"

\* a JSON object without the key reputation_data
NoData == [absent |-> TRUE]

NoBody == [kind |-> "null"]

Object(address, reputation_data) ==
    [address |-> address, kind |-> "object",
     reputation_data |-> reputation_data]

\* bodies that are not objects: null, the empty array, an array holding the
\* string "address"
OtherBodies ==
    {NoBody, [kind |-> "array", items |-> {}],
     [kind |-> "array", items |-> {"address"}]}

\* bool(data): None, [] and {} are false
Truthy(body) ==
    CASE body.kind = "null" -> FALSE
      [] body.kind = "array" -> body.items # {}
      [] body.kind = "object" ->
            body.address # Absent \/ body.reputation_data # NoData

\* 'address' in data, for a list or a dict
HasAddress(body) ==
    CASE body.kind = "array" -> "address" \in body.items
      [] body.kind = "object" -> body.address # Absent

\* the two tests of handle_analyze and handle_check_badge: 400 when the body
\* is false or has no "address", 500 when data['address'] raises TypeError
\* because the body is a list, 0 when the handler goes on
AddressValidation(body) ==
    IF ~Truthy(body) THEN 400
    ELSE IF ~HasAddress(body) THEN 400
    ELSE IF body.kind # "object" THEN 500
    ELSE 0

\* the response Flask sends when a view raises
INTERNAL_SERVER_ERROR == "Internal Server Error"

ADDRESS_REQUIRED == "Address is required"
ADDRESS_AND_DATA_REQUIRED == "Address and reputation data are required"

\* no response yet
NoResponse == [status |-> 0, message |-> None]

\* "error" in message.lower(), for the messages of mint_reputation_badge
ContainsError(message) ==
    message \in {"An error occurred: ConnectionError",
                 "An error occurred: TimeExhausted"}

\* handle_mint's response for a result of mint_reputation_badge: the result
\* itself with 200, or its message with 500 or 400
handle_mint_response(result) ==
    IF result.success
    THEN [status |-> 200, message |-> result.message]
    ELSE [status |-> IF ContainsError(result.message) THEN 500 ELSE 400,
          message |-> result.message]

(***************************************************************************)
(* analyze_address_reputation (analyzer.py): the connection guard, the     *)
(* checksum of the address, the two account-data calls, the scorer.        *)
(***************************************************************************)
\* to_checksum_address: the mixed-case form of a well-formed address; a
\* string outside the domain is rejected
to_checksum_address ==
    [a \in {"0x988d", "0xD81c"} |->
        IF a = "0x988d" THEN "0x988D" ELSE "0xD81c"]

AddressInputs == DOMAIN to_checksum_address \cup {BadAddress}

\* where a call of the analysis may fail: the checksum of a malformed
\* address raises InvalidAddress or ValueError; for a well-formed one either
\* account-data call may raise, or none does
Faults(address) ==
    IF address \in DOMAIN to_checksum_address
    THEN {None, "get_transaction_count", "get_balance"}
    ELSE {"InvalidAddress", "ValueError"}

\* the record returned on failure
ErrorRecord(message, details) ==
    [category |-> "Error", score |-> 0, message |-> message,
     rationale |-> "", details |-> details]

CONNECTION_ERROR == "Error connecting to blockchain data."
INVALID_FORMAT   == "Invalid address format: "
INVALID_VALUE    == "Invalid address value: "
RETRIEVAL_ERROR  == "Error retrieving data from the blockchain."

\* an analysis that scores the account with a zero balance when the balance
\* cannot be fetched (variant used to test C12)
analyze_address_reputation_BalanceOptional(address, fault, tx_count, reply) ==
    IF ~w3_connection
    THEN [calls |-> <<>>, result |-> ErrorRecord(CONNECTION_ERROR, <<>>)]
    ELSE IF fault \in {"InvalidAddress", "ValueError"}
    THEN [calls |-> <<"to_checksum_address">>,
          result |-> ErrorRecord(
              [text |-> IF fault = "InvalidAddress" THEN INVALID_FORMAT
                        ELSE INVALID_VALUE,
               address |-> address],
              [address |-> address])]
    ELSE LET checksum_address == to_checksum_address[address]
             scored == simulate_ai_reputation_score(tx_count,
                                                    checksum_address, reply)
         IN  IF fault = "get_transaction_count"
             THEN [calls |-> <<"to_checksum_address", "get_transaction_count">>,
                   result |-> ErrorRecord(RETRIEVAL_ERROR,
                                          [address |-> checksum_address])]
             ELSE [calls |-> <<"to_checksum_address", "get_transaction_count",
                               "get_balance", "simulate_ai_reputation_score">>
                             \o (IF openai_client
                                 THEN <<"chat.completions.create">>
                                 ELSE <<>>),
                   result |-> [category |-> scored.category,
                               score |-> scored.score,
                               message |-> scored.message,
                               rationale |-> scored.rationale,
                               details |->
                                   [address |-> checksum_address,
                                    transaction_count |-> tx_count]]]

\* One call analyze_address_reputation(address): the calls it makes, in
\* order, and the record it returns.  fault says which call raises, if any;
\* tx_count is what get_transaction_count answers; reply is what the
\* narrative generator's provider does.
analyze_address_reputation(address, fault, tx_count, reply) ==
    IF ~w3_connection
    THEN [calls |-> <<>>, result |-> ErrorRecord(CONNECTION_ERROR, <<>>)]
    ELSE IF fault \in {"InvalidAddress", "ValueError"}
    THEN [calls |-> <<"to_checksum_address">>,
          result |-> ErrorRecord(
              [text |-> IF fault = "InvalidAddress" THEN INVALID_FORMAT
                        ELSE INVALID_VALUE,
               address |-> address],
              [address |-> address])]
    ELSE LET checksum_address == to_checksum_address[address]
             scored == simulate_ai_reputation_score(tx_count,
                                                    checksum_address, reply)
         IN  IF fault = "get_transaction_count"
             THEN [calls |-> <<"to_checksum_address", "get_transaction_count">>,
                   result |-> ErrorRecord(RETRIEVAL_ERROR,
                                          [address |-> checksum_address])]
             ELSE IF fault = "get_balance"
             THEN [calls |-> <<"to_checksum_address", "get_transaction_count",
                               "get_balance">>,
                   result |-> ErrorRecord(RETRIEVAL_ERROR,
                                          [address |-> checksum_address])]
             ELSE IF scored.raised # None
             THEN [calls |-> <<"to_checksum_address", "get_transaction_count",
                               "get_balance", "simulate_ai_reputation_score">>,
                   result |-> ErrorRecord(RETRIEVAL_ERROR,
                                          [address |-> checksum_address])]
             ELSE [calls |-> <<"to_checksum_address", "get_transaction_count",
                               "get_balance", "simulate_ai_reputation_score">>
                             \o (IF openai_client
                                 THEN <<"chat.completions.create">>
                                 ELSE <<>>),
                   result |-> [category |-> scored.category,
                               score |-> scored.score,
                               message |-> scored.message,
                               rationale |-> scored.rationale,
                               details |->
                                   [address |-> checksum_address,
                                    transaction_count |-> tx_count]]]

\* no analysis request yet
NoAnalysis == [called |-> FALSE, status |-> 0]

\* what an analysis was given by the chain and what it returned
Outcome(a) ==
    IF a.called
    THEN [called |-> TRUE, tx_count |-> a.tx_count,
          category |-> a.result.category, score |-> a.result.score,
          rationale |-> a.result.rationale]
    ELSE NoAnalysis

\* handle_analyze calls analyze_address_reputation(address) and answers 200
Analyze(address, fault, tx_count, reply) ==
    LET fetched == w3_connection /\ fault \in {None, "get_balance"}
        asked   == fetched /\ fault = None /\ openai_client
        a == analyze_address_reputation(address, fault, tx_count, reply)
    IN  /\ analysis_before' = Outcome(analysis)
        /\ analysis' = [called |-> TRUE, status |-> 200,
                        body |-> Object(address, NoData),
                        address |-> address, fault |-> fault,
                        tx_count |-> IF fetched THEN tx_count ELSE -1,
                        reply |-> IF asked THEN reply ELSE None,
                        calls |-> a.calls, result |-> a.result]
        /\ UNCHANGED <<cfg, openai_client, prev, cur, w3_connection>>
        /\ UNCHANGED mintVars

\* handle_analyze: the tests of the body, then the analysis
HandleAnalyze(body, fault, tx_count, reply) ==
    IF AddressValidation(body) # 0
    THEN /\ analysis_before' = Outcome(analysis)
         /\ analysis' = [called |-> FALSE,
                         status |-> AddressValidation(body),
                         body |-> body, calls |-> <<>>]
         /\ UNCHANGED <<cfg, openai_client, prev, cur, w3_connection>>
         /\ UNCHANGED mintVars
    ELSE Analyze(body.address, fault, tx_count, reply)

(***************************************************************************)
(* Minting (contract_interaction.py).  Web workers run mint_reputation_     *)
(* badge for the requests they receive; every call that leaves the process *)
(* (hasBadge, the pin, the nonce read, the gas estimate, the send, the     *)
(* wait for the receipt) is one step, and the chain mines the minter's     *)
(* pending transaction on its own schedule.                                *)
(***************************************************************************)
Workers == {"w1", "w2"}

Recipients == {"0xAaA1", "0xBbB2"}

\* mint requests received in one run of the model
MaxRequests == 2

\* exceptions a call that leaves the process may raise: one that is a
\* ValueError and one that is not
CallErrors == {"ValueError", "ConnectionError"}

NOT_CONFIGURED   == "IPFS service is not configured. Cannot mint."
ALREADY_HAS      == "Recipient already has a badge."
UPLOAD_FAILED    == "Failed to upload metadata to IPFS."
MINTED           == "Badge minted successfully!"
TX_FAILED        == "Transaction failed."
INVALID_ADDRESS  == "Invalid recipient address"

\* the two except clauses of mint_reputation_badge: ValueError, then
\* Exception with the text of the error in the message
\* Transaction hashes and token ids are positive numbers and nonces are
\* non-negative: 0 stands for a None hash or id, -1 for no nonce.
Failure(error) ==
    [success |-> FALSE,
     message |-> CASE error = "ValueError" -> INVALID_ADDRESS
                   [] error = "ConnectionError" ->
                        "An error occurred: ConnectionError"
                   [] error = "TimeExhausted" ->
                        "An error occurred: TimeExhausted",
     tx_hash |-> 0, tokenId |-> 0]

Abort(message) ==
    [success |-> FALSE, message |-> message, tx_hash |-> 0, tokenId |-> 0]

\* no result yet
NoResult == [success |-> FALSE, message |-> None, tx_hash |-> 0, tokenId |-> 0]

\* the chain's transaction count of each recipient account
ChainTxCount == [r \in Recipients |-> IF r = "0xAaA1" THEN 44 ELSE 5]

\* the category and score of an analysis of the address, as /analyze
\* returns them for the client to post to /mint
AnalysisOf(address) ==
    [category |-> Category(DefaultThresholds, ChainTxCount[address]),
     score |-> Score(DefaultThresholds, ChainTxCount[address])]

\* reputation data a client may post with a mint request: the analysis of
\* the address, the top tier whatever the address, or a category alone
ReputationData(address) ==
    (IF address \in Recipients THEN {AnalysisOf(address)} ELSE {})
    \cup {[category |-> "Legend", score |-> 95], [category |-> "Legend"]}

\* dict.get(key, default)
Get(d, key, default) == IF key \in DOMAIN d THEN d[key] ELSE default

\* nothing published
NoMetadata == [category |-> None, score |-> -1]

\* _generate_and_upload_metadata_to_ipfs: the Category and Score attributes
\* of the token metadata
Metadata(recipient_address, reputation_data) ==
    [category |-> Get(reputation_data, "category", "Unknown"),
     score |-> Get(reputation_data, "score", 0)]

\* locals of a request that has not started
NoRequest ==
    [id |-> 0, endpoint |-> None, body |-> NoBody, recipient |-> None,
     sent_before_check |-> FALSE,
     reputation_data |-> NoData, published |-> NoMetadata,
     token_uri |-> None, nonce |-> -1, gas |-> None, tx_hash |-> 0,
     calls |-> <<>>, result |-> NoResult, response |-> NoResponse]

\* no transaction of the minter is waiting
NoTx == [hash |-> 0, nonce |-> -1, to |-> None, uri |-> None]

\* TRUE iff another worker's request for the recipient has sent a transaction
PeerHasSent(w, recipient) ==
    \E v \in Workers \ {w} :
        req[v].recipient = recipient /\ req[v].tx_hash # 0

\* the locals of a request after a call that leaves the process, with the
\* call and what it returned ("raise" when it raised) added to the calls
\* made so far
Logged(r, call, returned) ==
    [r EXCEPT !.calls = Append(@, [call |-> call, returned |-> returned])]

\* The request ends with the given result after the given call.
Return(w, call, returned, result) ==
    /\ pc' = [pc EXCEPT ![w] = "done"]
    /\ req' = [req EXCEPT ![w] =
                  [Logged(@, call, returned)
                     EXCEPT !.result = result,
                            !.response = handle_mint_response(result)]]

\* A request that ends in the handler, before mint_reputation_badge or
\* check_if_has_badge is called.
Reject(w, endpoint, body, status, message) ==
    /\ pc' = [pc EXCEPT ![w] = "done"]
    /\ req' = [req EXCEPT ![w] =
                  [NoRequest EXCEPT !.endpoint = endpoint, !.body = body,
                                    !.response = [status |-> status,
                                                  message |-> message]]]

\* mint_reputation_badge ends before its first call
Refuse(w, body, result) ==
    /\ pc' = [pc EXCEPT ![w] = "done"]
    /\ req' = [req EXCEPT ![w] =
                  [NoRequest EXCEPT !.endpoint = "mint", !.body = body,
                                    !.result = result,
                                    !.response =
                                        handle_mint_response(result)]]

\* handle_mint: data.get on the body, which raises AttributeError when the
\* body is not a dict; the test of the address and the reputation data;
\* then mint_reputation_badge up to its first call: the PINATA_JWT guard and
\* to_checksum_address, which raises ValueError for a malformed address.
StartMint(w, body) ==
    /\ pc[w] = "idle"
    /\ requests < MaxRequests
    /\ requests' = requests + 1
    /\ IF body.kind # "object"
       THEN Reject(w, "mint", body, 500, INTERNAL_SERVER_ERROR)
       ELSE IF body.address = Absent \/ body.reputation_data = NoData
       THEN Reject(w, "mint", body, 400, ADDRESS_AND_DATA_REQUIRED)
       ELSE IF ~PINATA_JWT
       THEN Refuse(w, body, Abort(NOT_CONFIGURED))
       ELSE IF body.address = BadAddress
       THEN Refuse(w, body, Failure("ValueError"))
       ELSE /\ pc' = [pc EXCEPT ![w] = "check"]
            /\ req' = [req EXCEPT ![w] =
                          [NoRequest EXCEPT !.id = requests + 1,
                                            !.endpoint = "mint",
                                            !.body = body,
                                            !.recipient = body.address,
                                            !.reputation_data =
                                                body.reputation_data]]
    /\ UNCHANGED <<PINATA_JWT, badges, minter_nonce, pending, receipts>>
    /\ UNCHANGED scorerVars

\* contract: hasBadge(recipient)
hasBadge(recipient) == badges[recipient] > 0

\* a pre-check that takes a failed call for "no badge" (variant used to test
\* C20)
check_if_has_badge_FailOpen(recipient, raises) ==
    IF raises THEN FALSE ELSE hasBadge(recipient)

\* check_if_has_badge: the contract's answer, or True when the call raises
check_if_has_badge(recipient, raises) ==
    IF raises THEN TRUE ELSE hasBadge(recipient)

\* handle_check_badge: the tests of the body, then check_if_has_badge, whose
\* to_checksum_address raises inside the try for a malformed address
HandleCheckBadge(w, body) ==
    /\ pc[w] = "idle"
    /\ requests < MaxRequests
    /\ requests' = requests + 1
    /\ IF AddressValidation(body) # 0
       THEN Reject(w, "check_badge", body, AddressValidation(body),
                   IF AddressValidation(body) = 400 THEN ADDRESS_REQUIRED
                   ELSE INTERNAL_SERVER_ERROR)
       ELSE \E raises \in BOOLEAN :
               LET malformed == body.address \notin Recipients
                   has_badge == IF malformed THEN TRUE
                                ELSE check_if_has_badge(body.address, raises)
                   returned == IF raises THEN "raise"
                               ELSE IF has_badge THEN "True" ELSE "False"
                   r == [NoRequest EXCEPT !.endpoint = "check_badge",
                                          !.body = body,
                                          !.response =
                                              [status |-> 200,
                                               message |->
                                                   IF has_badge
                                                   THEN "has_badge: true"
                                                   ELSE "has_badge: false"]]
               IN  /\ pc' = [pc EXCEPT ![w] = "done"]
                   /\ req' = [req EXCEPT ![w] =
                                 IF malformed THEN r
                                 ELSE Logged(r, "hasBadge", returned)]
    /\ UNCHANGED <<PINATA_JWT, badges, minter_nonce, pending, receipts>>
    /\ UNCHANGED scorerVars

\* step 1: the pre-check; a recipient with a badge ends the request
CheckBadge(w) ==
    /\ pc[w] = "check"
    /\ \E raises \in BOOLEAN :
          LET returned == IF raises THEN "raise"
                          ELSE IF hasBadge(req[w].recipient) THEN "True"
                          ELSE "False"
          IN  IF check_if_has_badge(req[w].recipient, raises)
              THEN Return(w, "hasBadge", returned, Abort(ALREADY_HAS))
              ELSE /\ pc' = [pc EXCEPT ![w] = "pin"]
                   /\ req' = [req EXCEPT ![w] =
                         [Logged(@, "hasBadge", returned)
                            EXCEPT !.sent_before_check =
                                       PeerHasSent(w, req[w].recipient)]]
    /\ UNCHANGED <<PINATA_JWT, badges, minter_nonce, pending, receipts,
                   requests>>
    /\ UNCHANGED scorerVars

\* a publication whose failure is not looked at: the request goes on without
\* a token URI (variant used to test C19)
PinMetadataUnchecked(w) ==
    /\ pc[w] = "pin"
    /\ \/ /\ pc' = [pc EXCEPT ![w] = "nonce"]
          /\ req' = [req EXCEPT ![w] =
                        [Logged(@, "pinJSONToIPFS", "ipfs://Qm")
                           EXCEPT !.token_uri = "ipfs://Qm",
                                  !.published =
                                      Metadata(req[w].recipient,
                                               req[w].reputation_data)]]
       \/ /\ pc' = [pc EXCEPT ![w] = "nonce"]
          /\ req' = [req EXCEPT ![w] = Logged(@, "pinJSONToIPFS", "None")]
       \/ \E error \in CallErrors :
             Return(w, "pinJSONToIPFS", "raise", Failure(error))
    /\ UNCHANGED <<PINATA_JWT, badges, minter_nonce, pending, receipts,
                   requests>>
    /\ UNCHANGED scorerVars

\* a publication that is tried a second time when the pin fails (variant
\* used to test C14)
PinMetadataRetrying(w) ==
    /\ pc[w] = "pin"
    /\ \/ /\ pc' = [pc EXCEPT ![w] = "nonce"]
          /\ req' = [req EXCEPT ![w] =
                        [Logged(@, "pinJSONToIPFS", "ipfs://Qm")
                           EXCEPT !.token_uri = "ipfs://Qm",
                                  !.published =
                                      Metadata(req[w].recipient,
                                               req[w].reputation_data)]]
       \/ IF req[w].calls[Len(req[w].calls)].call = "pinJSONToIPFS"
          THEN Return(w, "pinJSONToIPFS", "None", Abort(UPLOAD_FAILED))
          ELSE /\ req' = [req EXCEPT ![w] =
                             Logged(@, "pinJSONToIPFS", "None")]
               /\ UNCHANGED pc
       \/ \E error \in CallErrors :
             Return(w, "pinJSONToIPFS", "raise", Failure(error))
    /\ UNCHANGED <<PINATA_JWT, badges, minter_nonce, pending, receipts,
                   requests>>
    /\ UNCHANGED scorerVars

\* step 2: _generate_and_upload_metadata_to_ipfs returns the token URI, or
\* None when the pin fails, or an exception escapes it
PinMetadata(w) ==
    /\ pc[w] = "pin"
    /\ \/ /\ pc' = [pc EXCEPT ![w] = "nonce"]
          /\ req' = [req EXCEPT ![w] =
                        [Logged(@, "pinJSONToIPFS", "ipfs://Qm")
                           EXCEPT !.token_uri = "ipfs://Qm",
                                  !.published =
                                      Metadata(req[w].recipient,
                                               req[w].reputation_data)]]
       \/ Return(w, "pinJSONToIPFS", "None", Abort(UPLOAD_FAILED))
       \/ \E error \in CallErrors :
             Return(w, "pinJSONToIPFS", "raise", Failure(error))
    /\ UNCHANGED <<PINATA_JWT, badges, minter_nonce, pending, receipts,
                   requests>>
    /\ UNCHANGED scorerVars

\* step 3: get_transaction_count(minter_address), chain_id and gas_price
ReadNonce(w) ==
    /\ pc[w] = "nonce"
    /\ \/ /\ pc' = [pc EXCEPT ![w] = "gas"]
          /\ req' = [req EXCEPT ![w] =
                        [Logged(@, "get_transaction_count", "nonce")
                           EXCEPT !.nonce = minter_nonce]]
       \/ \E error \in CallErrors :
             Return(w, "get_transaction_count", "raise", Failure(error))
    /\ UNCHANGED <<PINATA_JWT, badges, minter_nonce, pending, receipts,
                   requests>>
    /\ UNCHANGED scorerVars

\* estimate_gas: the estimate, or 300000 after a ContractLogicError
EstimateGas(w) ==
    /\ pc[w] = "gas"
    /\ \/ /\ pc' = [pc EXCEPT ![w] = "send"]
          /\ \E gas \in {"estimate", "fallback 300000"} :
                req' = [req EXCEPT ![w] =
                          [Logged(@, "estimate_gas", gas) EXCEPT !.gas = gas]]
       \/ \E error \in CallErrors :
             Return(w, "estimate_gas", "raise", Failure(error))
    /\ UNCHANGED <<PINATA_JWT, badges, minter_nonce, pending, receipts,
                   requests>>
    /\ UNCHANGED scorerVars

\* the node takes a transaction whose nonce is the account's next one; it
\* may take it in place of a pending one of the same nonce
NodeAccepts(nonce) == nonce = minter_nonce

\* a send that looks at the badge and at the other requests once more and
\* turns the request away (variant used to test C10)
SendTransactionRechecked(w) ==
    /\ pc[w] = "send"
    /\ \/ /\ ~hasBadge(req[w].recipient)
          /\ ~PeerHasSent(w, req[w].recipient)
          /\ NodeAccepts(req[w].nonce)
          /\ pending' = [hash |-> req[w].id, nonce |-> req[w].nonce,
                         to |-> req[w].recipient, uri |-> req[w].token_uri]
          /\ pc' = [pc EXCEPT ![w] = "wait"]
          /\ req' = [req EXCEPT ![w] =
                        [Logged(@, "send_raw_transaction", "tx_hash")
                           EXCEPT !.tx_hash = req[w].id]]
       \/ /\ hasBadge(req[w].recipient) \/ PeerHasSent(w, req[w].recipient)
          /\ Return(w, "hasBadge", "True", Abort(ALREADY_HAS))
          /\ UNCHANGED pending
       \/ /\ \E error \in CallErrors :
                Return(w, "send_raw_transaction", "raise", Failure(error))
          /\ UNCHANGED pending
    /\ UNCHANGED <<PINATA_JWT, badges, minter_nonce, receipts, requests>>
    /\ UNCHANGED scorerVars

\* steps 4 and 5: build, sign and send_raw_transaction.  The node takes the
\* transaction, or the call raises (nonce too low, replacement underpriced,
\* connection lost).
SendTransaction(w) ==
    /\ pc[w] = "send"
    /\ \/ /\ NodeAccepts(req[w].nonce)
          /\ pending' = [hash |-> req[w].id, nonce |-> req[w].nonce,
                         to |-> req[w].recipient, uri |-> req[w].token_uri]
          /\ pc' = [pc EXCEPT ![w] = "wait"]
          /\ req' = [req EXCEPT ![w] =
                        [Logged(@, "send_raw_transaction", "tx_hash")
                           EXCEPT !.tx_hash = req[w].id]]
       \/ /\ \E error \in CallErrors :
                Return(w, "send_raw_transaction", "raise", Failure(error))
          /\ UNCHANGED pending
    /\ UNCHANGED <<PINATA_JWT, badges, minter_nonce, receipts, requests>>
    /\ UNCHANGED scorerVars

\* the receipt of a mined transaction, if any
ReceiptsOf(hash) == {r \in receipts : r.hash = hash}

\* step 6: wait_for_transaction_receipt(tx_hash, timeout=120) returns the
\* receipt once the transaction is mined, raises TimeExhausted while it is
\* not, or fails like any other call; then the token id is looked up in the
\* receipt's logs and may not be found.
WaitForReceipt(w) ==
    /\ pc[w] = "wait"
    /\ \/ \E r \in ReceiptsOf(req[w].tx_hash) :
             IF r.status = 1
             THEN \E tokenId \in {r.tokenId, 0} :
                     Return(w, "wait_for_transaction_receipt", "status 1",
                            [success |-> TRUE, message |-> MINTED,
                             tx_hash |-> req[w].tx_hash,
                             tokenId |-> tokenId])
             ELSE Return(w, "wait_for_transaction_receipt", "status 0",
                         [success |-> FALSE, message |-> TX_FAILED,
                          tx_hash |-> req[w].tx_hash, tokenId |-> 0])
       \/ /\ ReceiptsOf(req[w].tx_hash) = {}
          /\ Return(w, "wait_for_transaction_receipt", "raise",
                    Failure("TimeExhausted"))
       \/ \E error \in CallErrors :
             Return(w, "wait_for_transaction_receipt", "raise",
                    Failure(error))
    /\ UNCHANGED <<PINATA_JWT, badges, minter_nonce, pending, receipts,
                   requests>>
    /\ UNCHANGED scorerVars

\* handle_mint sends the response; the worker is free for the next request
Respond(w) ==
    /\ pc[w] = "done"
    /\ pc' = [pc EXCEPT ![w] = "idle"]
    /\ req' = [req EXCEPT ![w] = NoRequest]
    /\ UNCHANGED <<PINATA_JWT, badges, minter_nonce, pending, receipts,
                   requests>>
    /\ UNCHANGED scorerVars

\* tokens minted so far
RECURSIVE TotalBadges(_)
TotalBadges(rs) ==
    IF rs = {} THEN 0
    ELSE LET r == CHOOSE x \in rs : TRUE
         IN  badges[r] + TotalBadges(rs \ {r})

\* The chain mines the pending transaction: safeMint gives the recipient a
\* token with the next id (status 1) or reverts (status 0).
Mine ==
    /\ pending # NoTx
    /\ \E status \in {0, 1} :
          LET tokenId == IF status = 1 THEN TotalBadges(Recipients) + 1 ELSE 0
          IN  /\ receipts' = receipts \cup
                     {[hash |-> pending.hash, status |-> status,
                       tokenId |-> tokenId]}
              /\ badges' = IF status = 1
                           THEN [badges EXCEPT ![pending.to] = @ + 1]
                           ELSE badges
    /\ minter_nonce' = minter_nonce + 1
    /\ pending' = NoTx
    /\ UNCHANGED <<PINATA_JWT, pc, req, requests>>
    /\ UNCHANGED scorerVars

(***************************************************************************)
(* Specifications.                                                         *)
(***************************************************************************)
\* no mint request yet, no token issued, the minter account unused
MintQuiet ==
    /\ badges = [r \in Recipients |-> 0]
    /\ minter_nonce = 0
    /\ pending = NoTx
    /\ receipts = {}
    /\ pc = [w \in Workers |-> "idle"]
    /\ req = [w \in Workers |-> NoRequest]
    /\ requests = 0

\* no analysis request yet
AnalysisQuiet ==
    /\ analysis_before = NoAnalysis
    /\ analysis = NoAnalysis

\* the scorer alone: any configuration, any sequence of invocations
ScorerInit ==
    /\ cfg \in ThresholdConfigs
    /\ openai_client \in BOOLEAN
    /\ prev = NoInvocation
    /\ cur = NoInvocation
    /\ w3_connection = TRUE
    /\ AnalysisQuiet
    /\ PINATA_JWT = TRUE
    /\ MintQuiet

ScorerNext ==
    \E tx_count \in TxCounts(cfg), address \in Addresses :
        \E reply \in (IF openai_client THEN LlmReplies ELSE {None}) :
            Invoke(tx_count, address, reply)

SpecScorer == ScorerInit /\ [][ScorerNext]_vars

\* analysis requests: the process starts with or without a connection and
\* with or without a narrative client, and analyses addresses one by one
AnalyzeInit ==
    /\ cfg = DefaultThresholds
    /\ openai_client \in BOOLEAN
    /\ prev = NoInvocation
    /\ cur = NoInvocation
    /\ w3_connection \in BOOLEAN
    /\ AnalysisQuiet
    /\ PINATA_JWT = TRUE
    /\ MintQuiet

\* the chain answers with a count when it is asked for one, and the
\* narrative provider answers or raises when there is a client to ask it
AnalyzeNext ==
    \E address \in AddressInputs :
        \E fault \in Faults(address) :
            \E tx_count \in (IF fault \in {None, "get_balance"}
                             THEN TxCounts(cfg) ELSE {0}) :
                \E reply \in (IF fault = None /\ openai_client
                               THEN LlmReplies ELSE {None}) :
                    Analyze(address, fault, tx_count, reply)

SpecAnalyze == AnalyzeInit /\ [][AnalyzeNext]_vars

\* minting: the web workers and the chain
MintInit ==
    /\ cfg = DefaultThresholds
    /\ openai_client = FALSE
    /\ prev = NoInvocation
    /\ cur = NoInvocation
    /\ w3_connection = TRUE
    /\ AnalysisQuiet
    /\ PINATA_JWT \in BOOLEAN
    /\ MintQuiet

WorkerStep(w) ==
    \/ CheckBadge(w)
    \/ PinMetadata(w)
    \/ ReadNonce(w)
    \/ EstimateGas(w)
    \/ SendTransaction(w)
    \/ WaitForReceipt(w)
    \/ Respond(w)

\* what is posted with a mint request by a client that has analysed the
\* address first
PostedData(address) ==
    IF address \in Recipients THEN AnalysisOf(address)
    ELSE [category |-> "Error", score |-> 0]

\* requests are taken whenever a worker is free and run concurrently; the
\* clients post the analysis of the address they ask a badge for
MintNext ==
    \/ \E w \in Workers, address \in Recipients \cup {BadAddress} :
          StartMint(w, Object(address, PostedData(address)))
    \/ \E w \in Workers : WorkerStep(w)
    \/ Mine

SpecMint == MintInit /\ [][MintNext]_vars

\* requests are handled one after another: a request is taken only when no
\* other is in progress; the clients post any reputation data
AllIdle == \A w \in Workers : pc[w] = "idle"

MintSeqNext ==
    \/ \E w \in Workers, address \in Recipients \cup {BadAddress} :
          \E reputation_data \in ReputationData(address) :
              AllIdle /\ StartMint(w, Object(address, reputation_data))
    \/ \E w \in Workers : WorkerStep(w)
    \/ Mine

SpecMintSeq == MintInit /\ [][MintSeqNext]_vars

\* the service: a run of analysis requests, or a run of mint and badge-check
\* requests, with any body
ServiceInit ==
    /\ cfg = DefaultThresholds
    /\ openai_client = TRUE
    /\ prev = NoInvocation
    /\ cur = NoInvocation
    /\ w3_connection = TRUE
    /\ AnalysisQuiet
    /\ PINATA_JWT = TRUE
    /\ MintQuiet

\* the bodies posted to /analyze and /check_badge, and to /mint
AddressBodies(addresses) ==
    OtherBodies \cup {Object(Absent, NoData)}
    \cup {Object(address, NoData) : address \in addresses}

MintBodies ==
    OtherBodies \cup {Object(Absent, NoData)}
    \cup UNION {{Object(address, NoData),
                 Object(Absent, PostedData(address)),
                 Object(address, PostedData(address))} :
                    address \in Recipients \cup {BadAddress}}

ServiceNext ==
    \/ /\ requests = 0
       /\ \E body \in AddressBodies(AddressInputs) :
             \E fault \in (IF AddressValidation(body) = 0
                           THEN Faults(body.address) ELSE {None}) :
                 \E tx_count \in (IF fault \in {None, "get_balance"}
                                  THEN TxCounts(cfg) ELSE {0}) :
                     \E reply \in (IF fault = None THEN LlmReplies
                                    ELSE {None}) :
                         HandleAnalyze(body, fault, tx_count, reply)
    \/ /\ analysis.status = 0
       /\ \E w \in Workers, body \in MintBodies : StartMint(w, body)
    \/ /\ analysis.status = 0
       /\ \E w \in Workers :
             \E body \in AddressBodies(Recipients \cup {BadAddress}) :
                 HandleCheckBadge(w, body)
    \/ \E w \in Workers : WorkerStep(w)
    \/ Mine

SpecService == ServiceInit /\ [][ServiceNext]_vars

(***************************************************************************)
(* Properties of the scorer, checked under SpecScorer.                     *)
(***************************************************************************)
Returned(inv) == inv.called /\ inv.result.raised = None

\* C1: with thresholds T1<T2<T3<T4 the scorer assigns Newcomer iff c<T1,
\* Explorer iff T1<=c<T2, Contributor iff T2<=c<T3, Veteran iff T3<=c<T4 and
\* Legend iff c>=T4, so c = Tk-1 is in the lower and c = Tk in the upper
\* category.
C1_CategoryIntervals ==
    (Returned(cur) /\ StrictlyIncreasing(cfg)) =>
        LET c   == cur.tx_count
            cat == cur.result.category
        IN  /\ (cat = "Newcomer") <=> (c < cfg.MIN_TX_COUNT_EXPLORER)
            /\ (cat = "Explorer") <=> (cfg.MIN_TX_COUNT_EXPLORER <= c
                                       /\ c < cfg.MIN_TX_COUNT_CONTRIBUTOR)
            /\ (cat = "Contributor") <=> (cfg.MIN_TX_COUNT_CONTRIBUTOR <= c
                                          /\ c < cfg.MIN_TX_COUNT_VETERAN)
            /\ (cat = "Veteran") <=> (cfg.MIN_TX_COUNT_VETERAN <= c
                                      /\ c < cfg.MIN_TX_COUNT_LEGEND)
            /\ (cat = "Legend") <=> (cfg.MIN_TX_COUNT_LEGEND <= c)

\* a count one below a threshold was scored in the lower category and then
\* the threshold itself in the upper one
C1_Witness ==
    /\ Returned(prev) /\ Returned(cur) /\ StrictlyIncreasing(cfg)
    /\ prev.tx_count = cfg.MIN_TX_COUNT_VETERAN - 1
    /\ prev.result.category = "Contributor"
    /\ cur.tx_count = cfg.MIN_TX_COUNT_VETERAN
    /\ cur.result.category = "Veteran"

\* C2: for every transaction count c >= 0 the returned score is an integer
\* in 0..100.
C2_ScoreInRange == Returned(cur) => cur.result.score \in 0..100

\* a count just below a threshold, where the bonus reaches the band's cap
C2_Witness ==
    /\ Returned(cur)
    /\ cur.tx_count = cfg.MIN_TX_COUNT_CONTRIBUTOR - 1
    /\ cur.result.category = "Explorer"
    /\ cur.result.score = 49

\* C3: the category is one of the five values and the tier is monotonically
\* non-decreasing in the count: for c1 <= c2 the tier of c1 is not above the
\* tier of c2.
C3_TierMonotone ==
    /\ Returned(cur) => cur.result.category \in Categories
    /\ (Returned(prev) /\ Returned(cur) /\ prev.tx_count <= cur.tx_count) =>
           Tier(prev.result.category) <= Tier(cur.result.category)

\* two invocations with increasing counts that landed in different tiers
C3_Witness ==
    /\ Returned(prev) /\ Returned(cur)
    /\ prev.tx_count < cur.tx_count
    /\ prev.result.category = "Explorer"
    /\ cur.result.category = "Veteran"

\* C4: within a single category the score is non-decreasing in the count:
\* for c1 <= c2 placed in the same category, score(c1) <= score(c2).
C4_ScoreMonotoneInCategory ==
    (/\ Returned(prev) /\ Returned(cur)
     /\ prev.tx_count <= cur.tx_count
     /\ prev.result.category = cur.result.category) =>
        prev.result.score <= cur.result.score

\* two counts of the same category with strictly increasing scores
C4_Witness ==
    /\ Returned(prev) /\ Returned(cur)
    /\ prev.tx_count < cur.tx_count
    /\ prev.result.category = "Explorer"
    /\ cur.result.category = "Explorer"
    /\ prev.result.score < cur.result.score

\* r is a nearest integer to num * width / den
Nearest(r, num, width, den) ==
    LET twice == 2 * r * den - 2 * num * width
    IN  -den <= twice /\ twice <= den

\* score = min(cap, base + nearest integer to (c - lower) * width / (upper - lower))
Interpolated(score, c, lower, upper, base, width, cap) ==
    \E r \in 0..(width + 1) :
        /\ Nearest(r, c - lower, width, upper - lower)
        /\ score = Min(cap, base + r)

\* C5: for each non-terminal category the score equals min(category maximum,
\* base + nearest integer to (c - lower_bound) * width / (upper_bound -
\* lower_bound)), with bases 10/30/60/85, maxima 19/49/79/94, widths
\* 9/19/19/9 and lower bound 0 for Newcomer; for Legend the score is exactly
\* 95.
C5_Interpolation ==
    Returned(cur) =>
        LET c     == cur.tx_count
            cat   == cur.result.category
            score == cur.result.score
        IN  CASE cat = "Newcomer" ->
                   Interpolated(score, c, 0, cfg.MIN_TX_COUNT_EXPLORER, 10, 9, 19)
              [] cat = "Explorer" ->
                   Interpolated(score, c, cfg.MIN_TX_COUNT_EXPLORER,
                                cfg.MIN_TX_COUNT_CONTRIBUTOR, 30, 19, 49)
              [] cat = "Contributor" ->
                   Interpolated(score, c, cfg.MIN_TX_COUNT_CONTRIBUTOR,
                                cfg.MIN_TX_COUNT_VETERAN, 60, 19, 79)
              [] cat = "Veteran" ->
                   Interpolated(score, c, cfg.MIN_TX_COUNT_VETERAN,
                                cfg.MIN_TX_COUNT_LEGEND, 85, 9, 94)
              [] cat = "Legend" -> score = 95

\* 21/38 of the Explorer band: 21 / 38 * 19 is 10.500000000000002 in binary
\* floating point and rounds to 11
C5_Witness ==
    /\ Returned(cur)
    /\ cfg = Thresholds(2, 40, 44, 48)
    /\ cur.tx_count = 23
    /\ cur.result.score = 41

\* C6: with the default thresholds 10/50/200/1000: c=0 -> Newcomer, 10;
\* c=9 -> Newcomer, 18 or 19; c=10 -> Explorer, 30; c=1000 -> Legend, 95.
C6_ConcreteCases ==
    (Returned(cur) /\ cfg = Thresholds(10, 50, 200, 1000)) =>
        LET c     == cur.tx_count
            cat   == cur.result.category
            score == cur.result.score
        IN  /\ c = 0 => (cat = "Newcomer" /\ score = 10)
            /\ c = 9 => (cat = "Newcomer" /\ score \in {18, 19})
            /\ c = 10 => (cat = "Explorer" /\ score = 30)
            /\ c = 1000 => (cat = "Legend" /\ score = 95)

\* the default configuration scored 9 and then 1000
C6_Witness ==
    /\ Returned(prev) /\ Returned(cur)
    /\ cfg = Thresholds(10, 50, 200, 1000)
    /\ prev.tx_count = 9 /\ prev.result.score = 18
    /\ cur.tx_count = 1000 /\ cur.result.category = "Legend"

\* C7 as stated: with the default thresholds a transaction count of 44 is
\* categorized Explorer with a score of 44.
C7_Original ==
    (Returned(cur) /\ cfg = Thresholds(10, 50, 200, 1000) /\ cur.tx_count = 44)
        => (cur.result.category = "Explorer" /\ cur.result.score = 44)

\* C7 amended: with the default thresholds a transaction count of 44 is
\* categorized Explorer with a score of 46 (30 + round(34 / 40 * 19)).
C7_Score44 ==
    (Returned(cur) /\ cfg = Thresholds(10, 50, 200, 1000) /\ cur.tx_count = 44)
        => (cur.result.category = "Explorer" /\ cur.result.score = 46)

\* the default configuration scored 44
C7_Witness ==
    /\ Returned(cur)
    /\ cfg = Thresholds(10, 50, 200, 1000)
    /\ cur.tx_count = 44

\* C8: two invocations of the scorer with the same count, under the same
\* thresholds, return the same category and score, whatever the address and
\* whatever the narrative generator returns or however it fails.
C8_DependsOnlyOnCount ==
    (Returned(prev) /\ Returned(cur) /\ prev.tx_count = cur.tx_count) =>
        /\ prev.result.category = cur.result.category
        /\ prev.result.score = cur.result.score

\* the same count scored for two addresses, the generator answering once and
\* raising once
C8_Witness ==
    /\ Returned(prev) /\ Returned(cur)
    /\ prev.tx_count = cur.tx_count
    /\ prev.address # cur.address
    /\ prev.result.rationale = COULD_NOT
    /\ cur.result.rationale \notin {COULD_NOT, UNAVAILABLE}

\* C11: the scorer cannot fail on a non-negative count: for every count
\* c >= 0 and every threshold configuration, increasing or not, the call
\* returns a category, a score and a message, and the divisor of the
\* interpolation in the branch taken is positive.
C11_ScorerNeverFails ==
    cur.called =>
        /\ cur.tx_count >= 0
        /\ cur.result.raised = None
        /\ cur.result.category \in Categories
        /\ cur.result.score \in Int
        /\ cur.result.message = Message(cur.tx_count, cur.result.category)
        /\ ~DividesByZero(cfg, cur.tx_count)
        /\ \/ cur.result.category = "Legend"
           \/ Scaling(cfg, cur.result.category, cur.tx_count).den > 0

\* thresholds that are not increasing, two of them equal, and a count that
\* falls in a branch that divides
C11_Witness ==
    /\ Returned(cur)
    /\ ~StrictlyIncreasing(cfg)
    /\ cfg.MIN_TX_COUNT_CONTRIBUTOR = cfg.MIN_TX_COUNT_VETERAN
    /\ cur.tx_count = cfg.MIN_TX_COUNT_VETERAN
    /\ cur.result.category = "Veteran"

\* TRUE iff the calls before the i-th include the given call with the given
\* return value
Before(calls, i, call, returned) ==
    \E j \in 1..(i - 1) :
        calls[j] = [call |-> call, returned |-> returned]

\* C19, under SpecMint: within one mint request the order is pre-check,
\* publication, issuance: the publisher is called only after hasBadge
\* returned false, the transaction is submitted only after the publication
\* returned a locator, and when the publication fails no transaction is
\* submitted.
C19_CheckPublishIssue ==
    /\ \A w \in Workers :
          LET calls == req[w].calls
          IN  /\ \A i \in DOMAIN calls :
                    /\ calls[i].call = "pinJSONToIPFS" =>
                           Before(calls, i, "hasBadge", "False")
                    /\ calls[i].call = "send_raw_transaction" =>
                           /\ Before(calls, i, "pinJSONToIPFS", "ipfs://Qm")
                           /\ req[w].token_uri = "ipfs://Qm"
                    /\ (calls[i].call = "pinJSONToIPFS"
                        /\ calls[i].returned # "ipfs://Qm") =>
                           /\ i = Len(calls)
                           /\ pc[w] = "done"
                           /\ req[w].tx_hash = 0
    /\ pending # NoTx => pending.uri = "ipfs://Qm"

\* one request has gone through the three steps in order and sent its
\* transaction, another has stopped at a failed publication
C19_Witness ==
    \E w, v \in Workers :
        /\ Len(req[w].calls) >= 5
        /\ req[w].calls[1] = [call |-> "hasBadge", returned |-> "False"]
        /\ req[w].calls[2].call = "pinJSONToIPFS"
        /\ req[w].calls[5] = [call |-> "send_raw_transaction",
                              returned |-> "tx_hash"]
        /\ pc[v] = "done"
        /\ req[v].result.message = UPLOAD_FAILED
        /\ Len(req[v].calls) = 2

\* C20, under SpecMint: the pre-check fails closed: when the hasBadge call
\* raises, check_if_has_badge returns true and the mint request publishes
\* nothing and submits no transaction; it returns success=false with the
\* message that the recipient already has a badge.
C20_PreCheckFailsClosed ==
    \A w \in Workers :
        (/\ req[w].endpoint = "mint"
         /\ req[w].calls # <<>>
         /\ req[w].calls[1] = [call |-> "hasBadge", returned |-> "raise"]) =>
            /\ pc[w] = "done"
            /\ Len(req[w].calls) = 1
            /\ req[w].result = Abort(ALREADY_HAS)
            /\ req[w].published = NoMetadata
            /\ req[w].token_uri = None
            /\ req[w].tx_hash = 0
            /\ \A r \in receipts : r.hash # req[w].id

\* the hasBadge call raised for a recipient that holds no badge
C20_Witness ==
    \E w \in Workers :
        /\ pc[w] = "done"
        /\ req[w].calls = <<[call |-> "hasBadge", returned |-> "raise"]>>
        /\ badges[req[w].recipient] = 0
        /\ req[w].result.message = ALREADY_HAS

\* TRUE iff the request submitted its mint transaction to the chain
Submitted(w) ==
    \E i \in DOMAIN req[w].calls :
        req[w].calls[i] = [call |-> "send_raw_transaction",
                           returned |-> "tx_hash"]

\* C21 as stated, under SpecMint: a mint result without a transaction
\* reference means that nothing was submitted: whenever
\* mint_reputation_badge returns success=false with tx_hash None, the
\* request sent no mint transaction, so it has issued no token.
C21_NoHashNothingSent ==
    \A w \in Workers :
        (/\ pc[w] = "done"
         /\ req[w].endpoint = "mint"
         /\ req[w].result # NoResult
         /\ ~req[w].result.success
         /\ req[w].result.tx_hash = 0) =>
            /\ ~Submitted(w)
            /\ req[w].tx_hash = 0
            /\ \A r \in receipts : r.hash # req[w].id

(***************************************************************************)
(* Properties of the analysis, checked under SpecAnalyze.                  *)
(***************************************************************************)
\* TRUE iff the sequence names no call twice
NoCallRepeated(calls) ==
    \A i, j \in DOMAIN calls : calls[i] = calls[j] => i = j

\* TRUE iff the call is in the sequence
Called(calls, name) == \E i \in DOMAIN calls : calls[i] = name

\* TRUE iff the analysis met an account-data failure: no connection, a
\* malformed address, or a failed fetch of the count or of the balance
AccountDataFailed(a) == a.called /\ (~w3_connection \/ a.fault # None)

GeneratorFailed(a) ==
    /\ a.called /\ w3_connection /\ a.fault = None
    /\ (~openai_client \/ a.reply = "raise")

\* C13: a failure of the narrative generator never fails the analysis: when
\* the generator is unavailable or raises, the rationale is the fixed
\* fallback sentence and analyze_address_reputation returns the non-error
\* result with the category and score of the fetched count, the same as an
\* analysis of that count whose generator succeeded.
C13_GeneratorFailureSwallowed ==
    GeneratorFailed(analysis) =>
        /\ analysis.result.rationale =
               (IF openai_client THEN COULD_NOT ELSE UNAVAILABLE)
        /\ analysis.result.category # "Error"
        /\ analysis.result.category = Category(cfg, analysis.tx_count)
        /\ analysis.result.score = Score(cfg, analysis.tx_count)
        /\ (/\ analysis_before.called
            /\ analysis_before.tx_count = analysis.tx_count
            /\ analysis_before.category # "Error") =>
               /\ analysis_before.category = analysis.result.category
               /\ analysis_before.score = analysis.result.score

\* the same count analysed twice, the generator answering the first time and
\* raising the second
C13_Witness ==
    /\ GeneratorFailed(analysis)
    /\ analysis.reply = "raise"
    /\ analysis_before.called
    /\ analysis_before.tx_count = analysis.tx_count
    /\ analysis_before.category = "Explorer"
    /\ analysis_before.rationale \notin {COULD_NOT, UNAVAILABLE, ""}

(***************************************************************************)
(* Properties of the requests, checked under SpecService.                  *)
(***************************************************************************)
\* how many times the request made the call
Occurrences(calls, name) ==
    Cardinality({i \in DOMAIN calls : calls[i].call = name})

\* TRUE iff the body is absent, is not an object, or lacks the address or,
\* for the mint endpoint, the reputation data
InvalidBody(endpoint, body) ==
    \/ body.kind # "object"
    \/ body.address = Absent
    \/ endpoint = "mint" /\ body.reputation_data = NoData

\* C18 as stated: for the analyze, check_badge and mint endpoints a request
\* whose JSON body is absent, is not an object, or lacks the address (for
\* mint, the address or the reputation data) is answered with 400 and
\* triggers no analysis, badge check, publication or issuance.
C18_InvalidBodyRejected ==
    /\ (analysis.status # 0 /\ InvalidBody("analyze", analysis.body)) =>
           (analysis.status = 400 /\ ~analysis.called
            /\ analysis.calls = <<>>)
    /\ \A w \in Workers :
          (pc[w] = "done" /\ InvalidBody(req[w].endpoint, req[w].body)) =>
              /\ req[w].response.status = 400
              /\ req[w].calls = <<>>
              /\ req[w].result = NoResult
              /\ req[w].published = NoMetadata
              /\ req[w].tx_hash = 0

\* C14: no automatic retries: within one mint request the hasBadge check,
\* the metadata publication and the submission of the mint transaction are
\* each performed at most once, and within one analysis request each
\* account-data call and the narrative call are performed at most once,
\* whatever their outcomes.
C14_NoRetries ==
    /\ \A w \in Workers :
          \A name \in {"hasBadge", "pinJSONToIPFS", "send_raw_transaction"} :
              Occurrences(req[w].calls, name) <= 1
    /\ analysis.called =>
          \A name \in {"get_transaction_count", "get_balance",
                       "chat.completions.create"} :
              Cardinality({i \in DOMAIN analysis.calls :
                              analysis.calls[i] = name}) <= 1

\* a mint request has ended because its publication failed, having checked
\* the badge once and published once
C14_Witness ==
    \E w \in Workers :
        /\ pc[w] = "done"
        /\ req[w].result.message = UPLOAD_FAILED
        /\ Occurrences(req[w].calls, "hasBadge") = 1
        /\ Occurrences(req[w].calls, "pinJSONToIPFS") = 1
        /\ Occurrences(req[w].calls, "send_raw_transaction") = 0

(***************************************************************************)
(* Properties of minting.                                                  *)
(***************************************************************************)
\* C9 as stated, under SpecMintSeq (requests handled one after another): a
\* recipient that already holds a token is never issued a second one, so at
\* most one token is issued per recipient.
C9_AtMostOneTokenPerRecipient == \A r \in Recipients : badges[r] <= 1

\* TRUE iff the request has read the minter's nonce and is building,
\* sending or awaiting its transaction
Building(w) == pc[w] \in {"gas", "send", "wait"}

\* C16 as stated, under SpecMint (concurrent requests): mint requests share
\* no mutable state, so a request for one recipient does not depend on a
\* concurrent request for another recipient; in particular two concurrent
\* requests never build their transactions from the same minter nonce.
C16_DistinctNonces ==
    \A w, v \in Workers :
        (/\ w # v
         /\ Building(w) /\ Building(v)
         /\ req[w].recipient # req[v].recipient) =>
            req[w].nonce # req[v].nonce

\* C15 as stated, under SpecMintSeq: for every successful mint request the
\* category and the score written into the published token metadata are the
\* category and the score the scorer computes for the transaction count of
\* the recipient address.
C15_MetadataFromScorer ==
    \A w \in Workers :
        (pc[w] = "done" /\ req[w].result.success) =>
            /\ req[w].published.category =
                   Category(cfg, ChainTxCount[req[w].recipient])
            /\ req[w].published.score =
                   Score(cfg, ChainTxCount[req[w].recipient])

\* the message of handle_mint's own except clause
MINT_INTERNAL_ERROR ==
    "Minting process failed due to an internal server error."

\* the messages of the mint path that are fixed sentences of the code and
\* carry nothing of the error behind them
GenericMessages ==
    {NOT_CONFIGURED, ALREADY_HAS, UPLOAD_FAILED, TX_FAILED, INVALID_ADDRESS,
     MINT_INTERNAL_ERROR, INTERNAL_SERVER_ERROR}

\* TRUE iff the request ended on a call that raised, on a publication that
\* returned no locator, or on a receipt with status 0
UpstreamFailure(w) ==
    /\ pc[w] = "done" /\ req[w].endpoint = "mint"
    /\ req[w].calls # <<>>
    /\ req[w].calls[Len(req[w].calls)].returned \in
           {"raise", "None", "status 0"}

\* C17 as stated, under SpecMint: a mint request whose metadata upload
\* fails, whose transaction is rejected or not confirmed, or one of whose
\* network calls raises, is aborted and the message returned to the caller
\* is one of a fixed set of generic strings, with no detail of the error.
C17_GenericFailureMessages ==
    \A w \in Workers :
        UpstreamFailure(w) =>
            /\ ~req[w].result.success
            /\ req[w].response.message \in GenericMessages

\* C10, under SpecMint (concurrent requests): the pre-check is the only
\* place where a request looks at the recipient's badge.  A request that has
\* passed it and reached the send submits its transaction whatever other
\* requests for the same recipient have done in the meantime, and the only
\* requests turned away with "Recipient already has a badge." are turned away
\* before the metadata is published.
C10_PreCheckNotAtomic ==
    \A w \in Workers :
        /\ pc[w] = "send" => ENABLED SendTransaction(w)
        /\ (pc[w] = "done" /\ req[w].result.message = ALREADY_HAS) =>
               (req[w].token_uri = None /\ req[w].tx_hash = 0)

\* two concurrent requests for the same recipient have both submitted a
\* transaction, each having passed the pre-check before the other sent
C10_Witness ==
    \E w, v \in Workers :
        /\ w # v
        /\ req[w].recipient = req[v].recipient
        /\ req[w].tx_hash # 0 /\ req[v].tx_hash # 0
        /\ ~req[w].sent_before_check /\ ~req[v].sent_before_check

====
